---------------------------- MODULE Spec2Model ----------------------------
(***************************************************************************)
(* A model of certigen's batch certificate generator (src/app.py).         *)
(*                                                                         *)
(* Text is modelled as a sequence of Unicode code points, so that          *)
(* splitting, trimming, case conversion and sorting are computed the way   *)
(* Python computes them.  The file system is modelled per path: a path is  *)
(* absent, holds a partially written file, or holds a complete file.       *)
(* Each request handled by process() is a run; runs interleave at the      *)
(* points where the handler touches the file system.                       *)
(***************************************************************************)
EXTENDS Integers, Sequences, FiniteSets, TLC

(***************************************************************************)
(* Bounds of the model.                                                    *)
(***************************************************************************)
\* the largest number of lines (blank ones included) in a submitted names text
MaxLines == 3
\* the number of whole seconds the wall clock can advance during the model's runs
MaxClock == 1
\* the largest number of characters (and of shaped glyphs) of a name that is laid out
MaxChars == 2

(***************************************************************************)
(* Characters (code points) and Python's str methods on them.              *)
(***************************************************************************)
NL == 10
SP == 32

\* str.isspace() for the characters of the model
IsSpace(c) == c \in {9, 10, 11, 12, 13, 32}

IsUpper(c) == c \in 65..90
IsLower(c) == c \in 97..122

\* str.lower() / str.upper() of one character (identity outside A-Z / a-z,
\* in particular on Gujarati letters U+0A80..U+0AFF)
LowerChar(c) == IF IsUpper(c) THEN c + 32 ELSE c
UpperChar(c) == IF IsLower(c) THEN c - 32 ELSE c

Lower(s) == [i \in 1..Len(s) |-> LowerChar(s[i])]

\* str.capitalize(): first character upper-cased, the rest lower-cased
Capitalize(w) == [i \in 1..Len(w) |-> IF i = 1 THEN UpperChar(w[i]) ELSE LowerChar(w[i])]

RECURSIVE LStrip(_)
LStrip(s) == IF s # <<>> /\ IsSpace(Head(s)) THEN LStrip(Tail(s)) ELSE s

RECURSIVE RStrip(_)
RStrip(s) ==
    IF s # <<>> /\ IsSpace(s[Len(s)]) THEN RStrip(SubSeq(s, 1, Len(s) - 1)) ELSE s

\* str.strip()
Strip(s) == LStrip(RStrip(s))

\* str.split(sep) for a one-character separator: Len = 1 + number of separators
RECURSIVE SplitOn(_, _, _)
SplitOn(s, sep, cur) ==
    IF s = <<>> THEN <<cur>>
    ELSE IF Head(s) = sep THEN <<cur>> \o SplitOn(Tail(s), sep, <<>>)
    ELSE SplitOn(Tail(s), sep, Append(cur, Head(s)))

\* str.split() with no separator: the maximal runs of non-space characters
RECURSIVE SplitWords(_, _)
SplitWords(s, cur) ==
    IF s = <<>> THEN (IF cur = <<>> THEN <<>> ELSE <<cur>>)
    ELSE IF IsSpace(Head(s))
         THEN (IF cur = <<>> THEN <<>> ELSE <<cur>>) \o SplitWords(Tail(s), <<>>)
         ELSE SplitWords(Tail(s), Append(cur, Head(s)))

\* ' '.join(words)
RECURSIVE JoinWith(_, _)
JoinWith(words, sep) ==
    IF words = <<>> THEN <<>>
    ELSE IF Len(words) = 1 THEN words[1]
    ELSE words[1] \o <<sep>> \o JoinWith(Tail(words), sep)

to_proper_case(name) ==
    LET words == SplitWords(Lower(Strip(name)), <<>>)
    IN JoinWith([i \in 1..Len(words) |-> Capitalize(words[i])], SP)

\* Python's str comparison a < b: lexicographic by code point
RECURSIVE StrLess(_, _)
StrLess(a, b) ==
    IF b = <<>> THEN FALSE
    ELSE IF a = <<>> THEN TRUE
    ELSE IF Head(a) # Head(b) THEN Head(a) < Head(b)
    ELSE StrLess(Tail(a), Tail(b))

\* list.sort() on a list of str: a stable sort by StrLess (insertion of each
\* element after the last element that is not greater)
RECURSIVE InsertSorted(_, _)
InsertSorted(sorted, x) ==
    IF sorted = <<>> THEN <<x>>
    ELSE IF StrLess(x, Head(sorted)) THEN <<x>> \o sorted
    ELSE <<Head(sorted)>> \o InsertSorted(Tail(sorted), x)

RECURSIVE SortStrings(_)
SortStrings(l) ==
    IF l = <<>> THEN <<>>
    ELSE InsertSorted(SortStrings(SubSeq(l, 1, Len(l) - 1)), l[Len(l)])

\* a names list that keeps the blank lines as empty names
StripKeepBlank(lines) == [ i \in 1..Len(lines) |-> Strip(lines[i]) ]

\* [x for x in l if x]  after stripping each element
RECURSIVE StripNonBlank(_)
StripNonBlank(lines) ==
    IF lines = <<>> THEN <<>>
    ELSE (IF Strip(Head(lines)) # <<>> THEN <<Strip(Head(lines))>> ELSE <<>>)
         \o StripNonBlank(Tail(lines))

(***************************************************************************)
(* Font files.  A font file is one of: absent; "unloadable" (the file      *)
(* exists, ImageFont.truetype raises); "tofu" (loads, every probe glyph    *)
(* has a zero-width box); "late" (loads, the first probes raise or are     *)
(* zero-width and a later probe has a positive width); "good" (loads, the  *)
(* first probe has a positive width); "broken" (loads, every probe         *)
(* raises).                                                                *)
(***************************************************************************)
None == "None"

\* find_gujarati_font's exact_matches, in their declared order
FindExactMatches == <<
    "~/AppData/Local/Microsoft/Windows/Fonts/NotoSansGujarati-Regular.ttf",
    "~/AppData/Local/Microsoft/Windows/Fonts/NotoSansGujarati-Bold.ttf",
    "~/AppData/Local/Microsoft/Windows/Fonts/NotoSansGujarati-Medium.ttf",
    "C:/Windows/Fonts/NotoSansGujarati-Regular.ttf",
    "C:/Windows/Fonts/NotoSansGujarati-Bold.ttf",
    "C:/Windows/Fonts/NotoSansGujarati-Medium.ttf",
    "C:/Windows/Fonts/NotoSansGujarati-Regular.otf",
    "C:/Windows/Fonts/NotoSansGujarati-Bold.otf",
    "C:/Windows/Fonts/shvruti.ttf",
    "C:/Windows/Fonts/SHRUTI.TTF",
    "C:/Windows/Fonts/shruti.ttf",
    "/usr/share/fonts/truetype/noto/NotoSansGujarati-Regular.ttf",
    "/usr/share/fonts/truetype/lohit-gujarati/Lohit-Gujarati.ttf",
    "/System/Library/Fonts/Supplemental/NotoSansGujarati-Regular.ttf" >>

\* the files of the model that the non-recursive scan of search_paths yields and
\* whose lower-cased base name contains one of gujarati_font_names, in scan order
KeywordScanMatches == <<
    "C:/Windows/Fonts/NotoSansGujarati-Regular.ttf",
    "C:/Windows/Fonts/NotoSansGujarati-Bold.ttf",
    "C:/Windows/Fonts/NotoSansGujarati-Medium.ttf",
    "C:/Windows/Fonts/shvruti.ttf",
    "C:/Windows/Fonts/SHRUTI.TTF",
    "C:/Windows/Fonts/shruti.ttf",
    "C:/Windows/Fonts/Mukta-Regular.ttf",
    "C:/Windows/Fonts/NotoSansGujarati-Regular.otf",
    "C:/Windows/Fonts/NotoSansGujarati-Bold.otf",
    "~/AppData/Local/Microsoft/Windows/Fonts/NotoSansGujarati-Regular.ttf",
    "~/AppData/Local/Microsoft/Windows/Fonts/NotoSansGujarati-Bold.ttf",
    "~/AppData/Local/Microsoft/Windows/Fonts/NotoSansGujarati-Medium.ttf",
    "~/AppData/Local/Microsoft/Windows/Fonts/NotoSerifGujarati-Regular.ttf",
    "/System/Library/Fonts/Supplemental/NotoSansGujarati-Regular.ttf" >>

\* the files of the model that the recursive noto_patterns globs yield
RecursiveGlobMatches == <<
    "/usr/share/fonts/truetype/noto/NotoSansGujarati-Regular.ttf",
    "/usr/share/fonts/opentype/rekha-gujarati.otf" >>

arial_unicode_paths == <<
    "C:/Windows/Fonts/ARIALUNI.TTF",
    "C:/Windows/Fonts/arialuni.ttf",
    "C:/Windows/Fonts/Arial Unicode MS.ttf" >>

\* get_gujarati_font_path's exact_matches
PathExactMatches == <<
    "~/AppData/Local/Microsoft/Windows/Fonts/NotoSansGujarati-Regular.ttf",
    "C:/Windows/Fonts/NotoSansGujarati-Regular.ttf",
    "C:/Windows/Fonts/shvruti.ttf",
    "C:/Windows/Fonts/SHRUTI.TTF" >>

\* os.listdir(user_fonts_dir) restricted to the names holding 'noto', 'gujarati'
\* and 'regular' and ending in .ttf or .otf
UserDirRegularMatches == <<
    "~/AppData/Local/Microsoft/Windows/Fonts/NotoSansGujarati-Regular.ttf",
    "~/AppData/Local/Microsoft/Windows/Fonts/NotoSerifGujarati-Regular.ttf" >>

\* the Latin font files get_font_path looks for
system_font_paths == << "C:/Windows/Fonts/", "/System/Library/Fonts/", "/usr/share/fonts/" >>
LatinFontFiles == { "C:/Windows/Fonts/arial.ttf", "C:/Windows/Fonts/times.ttf" }
cursive_fonts == <<
    "C:/Windows/Fonts/BRUSHSCI.TTF",
    "C:/Windows/Fonts/BRUSHSC.ttf",
    "C:/Windows/Fonts/SCRIPTBL.TTF",
    "C:/Windows/Fonts/LHANDW.TTF" >>

Range(s) == { s[i] : i \in 1..Len(s) }

FontUniverse ==
    Range(FindExactMatches) \cup Range(KeywordScanMatches) \cup Range(RecursiveGlobMatches)
    \cup Range(arial_unicode_paths) \cup Range(UserDirRegularMatches)
    \cup LatinFontFiles \cup Range(cursive_fonts)

\* check_font_supports_gujarati's test_chars: U+0A85, U+0A95, U+0A97, U+0A9C, U+0AA8
test_chars == << 2693, 2709, 2711, 2716, 2728 >>

\* draw.textbbox((0, 0), test_char, font) for a loaded font of the given kind: the
\* box <<left, top, right, bottom>>, or "raise"
ProbeBBox(kind, i) ==
    CASE kind = "good" -> << 0, 3, 9, 14 >>
      [] kind = "tofu" -> << 0, 0, 0, 0 >>
      [] kind = "late" -> IF i = 1 THEN "raise"
                          ELSE IF i < 4 THEN << 2, 0, 2, 0 >>
                          ELSE << 1, 3, 8, 14 >>
      [] OTHER -> "raise"

\* a check that accepts every font file that loads
CheckAcceptsAnyLoadable(kind) == kind \notin { "absent", "unloadable" }

\* check_font_supports_gujarati, on the kind of the file at font_path
CheckKindSupportsGujarati(kind) ==
    /\ kind \notin { "absent", "unloadable" }
    /\ \E i \in 1..Len(test_chars) :
          LET bbox == ProbeBBox(kind, i)
          IN bbox # "raise" /\ bbox[3] - bbox[1] > 0

\* the font files of a machine are a function from the paths that exist to their kinds
KindAt(ffs, p) == IF p \in DOMAIN ffs THEN ffs[p] ELSE "absent"

check_font_supports_gujarati(ffs, font_path) == CheckKindSupportsGujarati(KindAt(ffs, font_path))

\* os.path.exists(p)
path_exists(ffs, p) == p \in DOMAIN ffs

\* the first element of seq that is in the set ok, or None
RECURSIVE FirstIn(_, _)
FirstIn(seq, ok) ==
    IF seq = <<>> THEN None
    ELSE IF Head(seq) \in ok THEN Head(seq)
    ELSE FirstIn(Tail(seq), ok)

\* find_gujarati_font: the file the returned font is loaded from, or None.  The
\* four stages are tried in order and each returns at its first passing file.
find_gujarati_font(ffs) ==
    LET passing == { p \in FontUniverse :
                        path_exists(ffs, p) /\ check_font_supports_gujarati(ffs, p) }
    IN FirstIn(FindExactMatches \o KeywordScanMatches \o RecursiveGlobMatches
               \o arial_unicode_paths, passing)

\* get_gujarati_font_path (the second definition, which is the one in force)
get_gujarati_font_path(ffs) ==
    LET existing == { p \in FontUniverse : path_exists(ffs, p) }
        exact == FirstIn(PathExactMatches, existing)
    IN IF exact # None THEN exact
       ELSE FirstIn(UserDirRegularMatches, existing)

font_map(font_name) ==
    CASE font_name = "arial" -> "arial.ttf"
      [] font_name = "times" -> "times.ttf"
      [] font_name \in { "cursive", "mongolia", "brush", "lucida", "gujarati" } -> None
      [] OTHER -> "arial.ttf"

\* get_font_path: the font handle as a record of the file it was loaded from and
\* the _font_path attribute stored on it (None when not set)
get_font_path(ffs, font_name) ==
    LET gujarati_font == IF font_name = "gujarati" THEN find_gujarati_font(ffs) ELSE None
        font_file == IF font_name = "gujarati" THEN "arial.ttf" ELSE font_map(font_name)
        loadable == { p \in FontUniverse : KindAt(ffs, p) \notin { "absent", "unloadable" } }
        sysfiles == IF font_file = None THEN <<>>
                    ELSE [ i \in 1..Len(system_font_paths) |-> system_font_paths[i] \o font_file ]
        sys == FirstIn(sysfiles, loadable)
        cur == IF font_name \in { "cursive", "mongolia", "brush", "lucida" }
               THEN FirstIn(cursive_fonts, loadable) ELSE None
    IN IF gujarati_font # None
       THEN [ source |-> gujarati_font, _font_path |-> get_gujarati_font_path(ffs) ]
       ELSE IF sys # None THEN [ source |-> sys, _font_path |-> None ]
       ELSE IF cur # None THEN [ source |-> cur, _font_path |-> None ]
       ELSE [ source |-> "default", _font_path |-> None ]

(***************************************************************************)
(* Requests.  The names text of a request is the lines of a pool joined    *)
(* by newlines.                                                            *)
(***************************************************************************)
Runs == { 1, 2 }

\* "go pA", " AN  sh\r", ""
LatinLines == {
    << 103, 111, 32, 112, 65 >>,
    << 32, 65, 78, 32, 32, 115, 104, 13 >>,
    << >> }

\* U+0A89 U+0AAE U+0AC7 U+0AB6 (a Gujarati name), " raj PA", "  "
GujaratiLines == {
    << 2697, 2734, 2759, 2742 >>,
    << 32, 114, 97, 106, 32, 80, 65 >>,
    << 32, 32 >> }

\* "govind patel\nANJU SHAH"
ScenarioText ==
    << 103, 111, 118, 105, 110, 100, 32, 112, 97, 116, 101, 108, 10,
       65, 78, 74, 85, 32, 83, 72, 65, 72 >>

\* "a.b\na_b": two names whose safe file names are equal
SameSafeText == << 97, 46, 98, 10, 97, 95, 98 >>

SeqsUpTo(S, n) == UNION { [ 1..k -> S ] : k \in 1..n }

NamesTexts(pool) == { JoinWith(lines, NL) : lines \in SeqsUpTo(pool, MaxLines) }

\* the upload of a request: no 'template' part, an empty file name, a name not
\* ending in .png, a .png that is no decodable image, a decodable .png
Uploads == { "missing", "noname", "notpng", "badimage", "png" }

FontFiles(paths, kinds) == [ p \in { paths[i] : i \in 1..Len(paths) } |->
                                kinds[CHOOSE i \in 1..Len(paths) : paths[i] = p] ]

ArialTtf == "C:/Windows/Fonts/arial.ttf"
UserNotoRegular == FindExactMatches[1]

\* a machine with no Gujarati font (Arial loads and has no Gujarati glyphs); one
\* whose first candidate passes the check
LatinOnly == FontFiles(<< ArialTtf >>, << "tofu" >>)
GoodFont == FontFiles(<< ArialTtf, UserNotoRegular >>, << "tofu", "good" >>)

\* the other machines: the first candidate has no Gujarati glyphs; it has none
\* and a font found by the keyword scan passes; the only passing font is found
\* by the recursive glob; the first candidate does not load and a later one passes;
\* the only candidate loads and raises on every probe
OtherFontEnvs == {
    FontFiles(<< ArialTtf, UserNotoRegular >>, << "tofu", "tofu" >>),
    FontFiles(<< ArialTtf, UserNotoRegular, "C:/Windows/Fonts/Mukta-Regular.ttf" >>,
              << "tofu", "tofu", "late" >>),
    FontFiles(<< ArialTtf, "/usr/share/fonts/opentype/rekha-gujarati.otf" >>,
              << "tofu", "good" >>),
    FontFiles(<< ArialTtf, UserNotoRegular, FindExactMatches[5] >>,
              << "tofu", "unloadable", "good" >>),
    FontFiles(<< ArialTtf, FindExactMatches[9] >>, << "tofu", "broken" >>) }

NoRequest == [ upload |-> "missing", font |-> "arial", names_text |-> << >>,
               generatePDF |-> FALSE ]

PngRequests(fonts, texts) ==
    { [ upload |-> "png", font |-> f, names_text |-> t, generatePDF |-> g ] :
        f \in fonts, t \in texts, g \in BOOLEAN }

\* the requests of the single-run specification that are handled with the first
\* machine (Arial, or a Gujarati font that passes the check, and HarfBuzz)
Requests ==
    { [ upload |-> u, font |-> "arial", names_text |-> << 98, 111 >>, generatePDF |-> FALSE ] :
        u \in Uploads \ { "png" } }
    \cup PngRequests({ "arial" }, NamesTexts(LatinLines) \cup { ScenarioText, SameSafeText })
    \cup PngRequests({ "cursive" }, LatinLines)
    \cup PngRequests({ "gujarati" }, NamesTexts(GujaratiLines))

\* the requests that are handled with each of the other machines, and without HarfBuzz
OtherEnvRequests == PngRequests({ "gujarati" }, GujaratiLines)

(***************************************************************************)
(* File names and files of a session directory.                            *)
(***************************************************************************)
\* c.isalnum() for the characters of the model: ASCII letters and digits, and the
\* Gujarati letters and digits (vowel signs such as U+0ABF, U+0AC7 are marks)
IsAlnum(c) ==
    \/ c \in 48..57 \/ IsUpper(c) \/ IsLower(c)
    \/ c \in 2693..2745 \/ c \in 2790..2799

\* safe_name.replace(" ", "_") of process's safe_name
SafeName(name) ==
    [ i \in 1..Len(name) |->
        IF IsAlnum(name[i]) \/ name[i] \in { 45, 95 } THEN name[i] ELSE 95 ]

\* a file naming that leaves the position out of the name
CertPathNoIndex(dir, index, safe, ext) == [ dir |-> dir, index |-> 0, safe |-> safe, ext |-> ext ]

\* a path below the session directory: cert_<index>_<safe>.<ext> in dir, or a fixed name
CertPath(dir, index, safe, ext) == [ dir |-> dir, index |-> index, safe |-> safe, ext |-> ext ]
CombinedPath == CertPath("", 0, << >>, "combined_certificates.pdf")
InfoPath == CertPath("", 0, << >>, "info.json")

\* str(n) for n >= 0, as code points
RECURSIVE Digits(_)
Digits(n) == IF n < 10 THEN << 48 + n >> ELSE Digits(n \div 10) \o << 48 + (n % 10) >>

\* ".png", ".jpg", ".pdf"
ExtChars(ext) ==
    CASE ext = "png" -> << 46, 112, 110, 103 >>
      [] ext = "jpg" -> << 46, 106, 112, 103 >>
      [] OTHER -> << 46, 112, 100, 102 >>

\* the file name f'cert_{index + 1}_{safe}.png' of a per-name path, with its extension
\* replaced as lines 443 and 608 replace it
FileName(path) ==
    << 99, 101, 114, 116, 95 >> \o Digits(path.index) \o << 95 >> \o path.safe
    \o ExtChars(path.ext)

Partial == [ state |-> "partial", data |-> << >> ]
Complete(data) == [ state |-> "complete", data |-> data ]

Put(dirfs, path, content) ==
    [ q \in DOMAIN dirfs \cup { path } |-> IF q = path THEN content ELSE dirfs[q] ]

Exists(dirfs, path) == path \in DOMAIN dirfs

IsComplete(dirfs, path) == Exists(dirfs, path) /\ dirfs[path].state = "complete"

EmptyDir == [ q \in { } |-> Partial ]

(***************************************************************************)
(* generate_certificate_image: the outcomes one call can have.  What the   *)
(* imaging and shaping libraries do on a given input is not decided by     *)
(* this program, so each library call succeeds or raises.                  *)
(***************************************************************************)
NoOutcome ==
    [ resolved |-> FALSE, font |-> [ source |-> None, _font_path |-> None ],
      branch |-> "none", shaping |-> "not_tried", shaped_path |-> None,
      measure |-> "none", glyph_draws |-> 0, text_draws |-> 0,
      raised |-> None, jpg |-> "absent", png |-> "absent" ]

\* lines 373-401: what the shaped path does.  "no_path": no usable font path, the
\* code raises "Font path not found for HarfBuzz"; "shape_raises": the measuring
\* pass raises; "draw_raises": render_gujarati_with_harfbuzz raises after it drew
\* some glyphs; "ok": the glyphs are drawn.
ShapingResults(ffs, hb, font_name, font) ==
    IF font_name = "gujarati" /\ hb
    THEN LET font_path == IF font._font_path # None THEN font._font_path
                          ELSE get_gujarati_font_path(ffs)
         IN IF font_path # None /\ path_exists(ffs, font_path)
            THEN { [ shaping |-> s, shaped_path |-> font_path ] :
                     s \in IF KindAt(ffs, font_path) = "unloadable" THEN { "shape_raises" }
                           ELSE { "ok", "shape_raises", "draw_raises" } }
            ELSE { [ shaping |-> "no_path", shaped_path |-> None ] }
    ELSE { [ shaping |-> "not_tried", shaped_path |-> None ] }

\* lines 442-447: the JPEG is saved, then the PNG; a save that raises leaves no
\* file or a partial one
SaveResults ==
    { [ raised |-> None, jpg |-> "complete", png |-> "complete" ] }
    \cup { [ raised |-> "other", jpg |-> j, png |-> "absent" ] : j \in { "absent", "partial" } }
    \cup { [ raised |-> "other", jpg |-> "complete", png |-> p ] : p \in { "absent", "partial" } }

\* template is "absent", "bad" (not a decodable image) or "ok"
generate_certificate_image(template, ffs, hb, font_name) ==
    IF template # "ok"
    THEN { [ NoOutcome EXCEPT !.raised = "other" ] }
    ELSE
    LET font == get_font_path(ffs, font_name)
        base == [ NoOutcome EXCEPT !.resolved = TRUE, !.font = font ]
        \* draw.text at line 416 or 440, then the saves
        TextDraw(o) ==
            { [ o EXCEPT !.raised = e ] : e \in { "font", "other" } }
            \cup { [ o EXCEPT !.text_draws = 1, !.raised = sv.raised,
                              !.jpg = sv.jpg, !.png = sv.png ] : sv \in SaveResults }
        \* textbbox, or the estimate when it raises
        Measured(o) == { [ o EXCEPT !.measure = m ] : m \in { "bbox", "estimate" } }
        OfShaping(sh) ==
            LET o == [ base EXCEPT !.shaping = sh.shaping, !.shaped_path = sh.shaped_path ]
            IN CASE sh.shaping = "ok" ->
                      { [ o EXCEPT !.branch = "harfbuzz", !.measure = "harfbuzz",
                                   !.glyph_draws = 1, !.raised = sv.raised,
                                   !.jpg = sv.jpg, !.png = sv.png ] : sv \in SaveResults }
                 [] sh.shaping = "not_tried" ->
                      UNION { TextDraw(m) : m \in Measured([ o EXCEPT !.branch = "regular" ]) }
                 [] OTHER ->
                      UNION { TextDraw(m) :
                                m \in Measured([ o EXCEPT !.branch = "fallback",
                                    !.glyph_draws = IF sh.shaping = "draw_raises" THEN 1 ELSE 0 ]) }
    IN UNION { OfShaping(sh) : sh \in ShapingResults(ffs, hb, font_name, font) }

(***************************************************************************)
(* The horizontal layout of generate_certificate_image.  Lengths are kept  *)
(* in units of 1/Scale pixel, which holds width / 2, text_width / 2 and    *)
(* the estimates len * font_size * 0.5 and len * font_size * 0.6 exactly.  *)
(***************************************************************************)
Scale == 20

\* the factors 0.5 and 0.6 of lines 411, 428 and 430, times Scale
WidthFactor(font_name) == IF font_name = "gujarati" THEN 10 ELSE 12

\* len(name) * (font_size * factor), lines 411 and 427-430
EstimatedWidth(chars, font_size, font_name) == chars * font_size * WidthFactor(font_name)

\* sum(pos.x_advance // 64 for pos in buf.glyph_positions), line 390, in pixels
RECURSIVE AdvanceSum(_)
AdvanceSum(run) ==
    IF run = << >> THEN 0 ELSE (Head(run).x_advance \div 64) + AdvanceSum(Tail(run))

\* center_x - (text_width / 2), lines 370, 394, 414 and 434
XPosition(width, text_width) == (width * Scale) \div 2 - text_width \div 2

\* render_gujarati_with_harfbuzz, lines 313-335: the left and right edge of each
\* glyph that has a bitmap, for a run drawn from x
GlyphEdges(run, x) ==
    { << x + Scale * (AdvanceSum(SubSeq(run, 1, k - 1)) + (run[k].x_offset \div 64)
                      + run[k].bitmap_left),
         x + Scale * (AdvanceSum(SubSeq(run, 1, k - 1)) + (run[k].x_offset \div 64)
                      + run[k].bitmap_left + run[k].bitmap_width) >> :
        k \in { j \in 1..Len(run) : run[j].bitmap_width > 0 } }

Min(S) == CHOOSE a \in S : \A b \in S : a <= b
Max(S) == CHOOSE a \in S : \A b \in S : a >= b

\* the layout of one name: 'shaped' tells whether the HarfBuzz branch runs to its
\* end, run is the shaped glyph run, ink is the box << left, right >> of the text
\* as PIL draws it relative to the draw origin, and bbox_raises tells whether
\* draw.textbbox raises instead of returning that box
Layout(font_name, shaped, run, ink, bbox_raises, chars, font_size, width) ==
    IF shaped
    THEN LET text_width == Scale * AdvanceSum(run)
             x_position == XPosition(width, text_width)
             edges == GlyphEdges(run, x_position)
         IN [ measure |-> "harfbuzz", text_width |-> text_width, x_position |-> x_position,
              drawn |-> edges # { },
              left |-> IF edges = { } THEN x_position ELSE Min({ e[1] : e \in edges }),
              right |-> IF edges = { } THEN x_position ELSE Max({ e[2] : e \in edges }) ]
    ELSE LET text_width == IF bbox_raises THEN EstimatedWidth(chars, font_size, font_name)
                           ELSE Scale * (ink[2] - ink[1])
             x_position == XPosition(width, text_width)
         IN [ measure |-> IF bbox_raises THEN "estimate" ELSE "bbox",
              text_width |-> text_width, x_position |-> x_position, drawn |-> TRUE,
              left |-> x_position + Scale * ink[1],
              right |-> x_position + Scale * ink[2] ]

(***************************************************************************)
(* generate_pdf and combine_pdfs.                                          *)
(***************************************************************************)
\* generate_pdf(image_path, pdf_path): "ok", "open_raises" (no file is created),
\* "convert_raises" (the file was opened for writing and nothing was written)
PdfOutcomes == { "ok", "open_raises", "convert_raises" }

generate_pdf(dirfs, image_path, pdf_path, outcome) ==
    CASE outcome = "ok" ->
            [ ret |-> TRUE, dirfs |-> Put(dirfs, pdf_path, Complete(<< dirfs[image_path].data >>)) ]
      [] outcome = "convert_raises" -> [ ret |-> FALSE, dirfs |-> Put(dirfs, pdf_path, Partial) ]
      [] OTHER -> [ ret |-> FALSE, dirfs |-> dirfs ]

\* a filter that gives up on the whole list when one input is missing
ExistingPdfsAllOrNothing(dirfs, pdf_files) ==
    IF \A i \in 1..Len(pdf_files) : Exists(dirfs, pdf_files[i]) THEN pdf_files ELSE << >>

\* [pdf for pdf in pdf_files if os.path.exists(pdf)]
RECURSIVE ExistingPdfs(_, _)
ExistingPdfs(dirfs, pdf_files) ==
    IF pdf_files = << >> THEN << >>
    ELSE (IF Exists(dirfs, Head(pdf_files)) THEN << Head(pdf_files) >> ELSE << >>)
         \o ExistingPdfs(dirfs, Tail(pdf_files))

\* a merge that appends the inputs in reverse order
RECURSIVE MergedPagesReversed(_, _)
MergedPagesReversed(dirfs, pdfs) ==
    IF pdfs = << >> THEN << >>
    ELSE MergedPagesReversed(dirfs, Tail(pdfs))
         \o (IF dirfs[Head(pdfs)].state = "complete" THEN dirfs[Head(pdfs)].data ELSE << >>)

\* the loop of lines 478-485: a file pikepdf cannot open is skipped
RECURSIVE MergedPages(_, _)
MergedPages(dirfs, pdfs) ==
    IF pdfs = << >> THEN << >>
    ELSE (IF dirfs[Head(pdfs)].state = "complete" THEN dirfs[Head(pdfs)].data ELSE << >>)
         \o MergedPages(dirfs, Tail(pdfs))

MergeOutcomes == { "ok", "save_raises_nofile", "save_raises_partial" }

\* combine_pdfs(pdf_files, output_path) on the directory dirfs, with the outcome of
\* merged_pdf.save
combine_pdfs(dirfs, pdf_files, output_path, outcome) ==
    LET existing_pdfs == ExistingPdfs(dirfs, pdf_files)
    IN IF pdf_files = << >> \/ existing_pdfs = << >>
       THEN [ ret |-> FALSE, dirfs |-> dirfs ]
       ELSE CASE outcome = "ok" ->
                   [ ret |-> TRUE,
                     dirfs |-> Put(dirfs, output_path, Complete(MergedPages(dirfs, existing_pdfs))) ]
              [] outcome = "save_raises_partial" ->
                   [ ret |-> FALSE, dirfs |-> Put(dirfs, output_path, Partial) ]
              [] OTHER -> [ ret |-> FALSE, dirfs |-> dirfs ]

(***************************************************************************)
(* The state.                                                              *)
(***************************************************************************)
VARIABLES
    clock,              \* int(datetime.now().timestamp()): the wall clock in seconds
    fontfs,             \* the font files of the machine: path -> kind
    HARFBUZZ_AVAILABLE, \* whether harfbuzz and freetype were imported
    uploads,            \* the upload folder: template time stamp -> 0 (no file) or
                        \* the run whose upload the file holds
    pc,                 \* per run: where the process() handler stands
    req,                \* per run: the request
    template_path,      \* per run: the time stamp in template_<stamp>.png, -1 before
    session_id,         \* per run: 0, or the run's own fresh session id
    proper_names,       \* per run: process's proper_names
    index,              \* per run: the number of names the loop has processed
    generated_files,    \* per run: process's generated_files
    sfs,                \* per run: the files of the session directory
    has_combined_pdf,   \* per run: process's has_combined_pdf
    merge_calls,        \* per run: the number of combine_pdfs calls
    response,           \* per run: the response of process(), code 0 before
    resolutions,        \* per run: font resolutions before the loop and inside it
    last,               \* per run: the latest generate_certificate_image outcome
    results_view,       \* per run: what the latest /results request for the session got
    unit,               \* a direct call of combine_pdfs: its inputs and result
    layout              \* the horizontal layout of one drawn name: inputs and result

vars == << clock, fontfs, HARFBUZZ_AVAILABLE, uploads, pc, req, template_path, session_id,
           proper_names, index, generated_files, sfs, has_combined_pdf, merge_calls,
           response, resolutions, last, results_view, unit, layout >>

NoResponse == [ success |-> FALSE, code |-> 0, message |-> "" ]
Failure(code, message) == [ success |-> FALSE, code |-> code, message |-> message ]

MsgFontNotFound == "Gujarati font not found on your system. Please install a Gujarati font like Shruti or Noto Sans Gujarati. Common locations: C:/Windows/Fonts/"
MsgRenderError == "Error rendering Gujarati text: <error>. Please ensure a Gujarati font is installed."

NoLayout ==
    [ font_name |-> "arial", shaped |-> FALSE, run |-> << >>, ink |-> << 0, 0 >>,
      bbox_raises |-> FALSE, chars |-> 0, font_size |-> 0, width |-> 0, called |-> FALSE,
      result |-> [ measure |-> "none", text_width |-> 0, x_position |-> 0, drawn |-> FALSE,
                   left |-> 0, right |-> 0 ] ]

NoUnit == [ pdf_files |-> << >>, before |-> EmptyDir, dirfs |-> EmptyDir, called |-> FALSE,
            outcome |-> "ok", ret |-> FALSE ]

Running == { "start", "saved", "fontcheck", "loop", "manifest", "writing" }

InitRuns(reqs) ==
    /\ clock = 0
    /\ uploads = [ t \in 0..MaxClock |-> 0 ]
    /\ req \in reqs
    /\ template_path = [ r \in Runs |-> -1 ]
    /\ session_id = [ r \in Runs |-> 0 ]
    /\ proper_names = [ r \in Runs |-> << >> ]
    /\ index = [ r \in Runs |-> 0 ]
    /\ generated_files = [ r \in Runs |-> << >> ]
    /\ sfs = [ r \in Runs |-> EmptyDir ]
    /\ has_combined_pdf = [ r \in Runs |-> FALSE ]
    /\ merge_calls = [ r \in Runs |-> 0 ]
    /\ response = [ r \in Runs |-> NoResponse ]
    /\ resolutions = [ r \in Runs |-> [ upfront |-> 0, pername |-> 0 ] ]
    /\ last = [ r \in Runs |-> NoOutcome ]
    /\ results_view = [ r \in Runs |-> "none" ]

\* one request, handled alone
Init ==
    /\ pc = [ r \in Runs |-> IF r = 1 THEN "start" ELSE "off" ]
    /\ unit = NoUnit
    /\ layout = NoLayout
    /\ \/ /\ InitRuns({ [ r \in Runs |-> IF r = 1 THEN q ELSE NoRequest ] : q \in Requests })
          /\ fontfs = IF req[1].font = "gujarati" THEN GoodFont ELSE LatinOnly
          /\ HARFBUZZ_AVAILABLE = TRUE
       \/ /\ InitRuns({ [ r \in Runs |-> IF r = 1 THEN q ELSE NoRequest ] :
                          q \in OtherEnvRequests })
          /\ \/ fontfs \in { LatinOnly } \cup OtherFontEnvs /\ HARFBUZZ_AVAILABLE = TRUE
             \/ fontfs = GoodFont /\ HARFBUZZ_AVAILABLE = FALSE

(***************************************************************************)
(* process(): the steps of the handler.                                    *)
(***************************************************************************)
Respond(r, resp) ==
    /\ response' = [ response EXCEPT ![r] = resp ]
    /\ pc' = [ pc EXCEPT ![r] = "done" ]

\* lines 506-523: the upload is checked and saved under the current second
Receive(r) ==
    /\ pc[r] = "start"
    /\ CASE req[r].upload = "missing" ->
              Respond(r, Failure(400, "No template file uploaded"))
              /\ UNCHANGED << uploads, template_path >>
         [] req[r].upload = "noname" ->
              Respond(r, Failure(400, "No file selected"))
              /\ UNCHANGED << uploads, template_path >>
         [] req[r].upload = "notpng" ->
              Respond(r, Failure(400, "Please upload a PNG image"))
              /\ UNCHANGED << uploads, template_path >>
         [] OTHER ->
              /\ template_path' = [ template_path EXCEPT ![r] = clock ]
              /\ uploads' = [ uploads EXCEPT ![clock] = r ]
              /\ pc' = [ pc EXCEPT ![r] = "saved" ]
              /\ UNCHANGED response
    /\ UNCHANGED << clock, fontfs, HARFBUZZ_AVAILABLE, req, session_id, proper_names, index,
                    generated_files, sfs, has_combined_pdf, merge_calls, resolutions, last,
                    results_view, unit, layout >>

\* the file at the run's template path: "absent", "bad" or "ok"
TemplateAt(r) ==
    LET owner == uploads[template_path[r]]
    IN IF owner = 0 THEN "absent"
       ELSE IF req[owner].upload = "png" THEN "ok" ELSE "bad"

\* a process() that sorts the names whatever the font
ProperNamesAlwaysSorted(font, names_text) ==
    SortStrings(StripNonBlank(SplitOn(names_text, NL, << >>)))

\* a process() that keeps the input order for every font
ProperNamesNeverSorted(font, names_text) ==
    LET names == StripNonBlank(SplitOn(names_text, NL, << >>))
    IN IF font = "gujarati" THEN names
       ELSE [ i \in 1..Len(names) |-> to_proper_case(names[i]) ]

\* lines 549-557: proper_names of the names text
ProperNames(font, names_text) ==
    LET names == StripNonBlank(SplitOn(names_text, NL, << >>))
    IN IF font = "gujarati" THEN names
       ELSE SortStrings([ i \in 1..Len(names) |-> to_proper_case(names[i]) ])

\* lines 525-564: the saved template is verified, the form is read, the names are
\* prepared and the session directory is created
VerifyAndPrepare(r) ==
    /\ pc[r] = "saved"
    /\ CASE TemplateAt(r) = "absent" ->
              \* Image.open raises, and so does os.remove in the handler
              Respond(r, Failure(500, "exception"))
              /\ UNCHANGED << uploads, session_id, proper_names >>
         [] TemplateAt(r) = "bad" ->
              /\ uploads' = [ uploads EXCEPT ![template_path[r]] = 0 ]
              /\ Respond(r, Failure(400, "Invalid image file"))
              /\ UNCHANGED << session_id, proper_names >>
         [] OTHER ->
              IF Strip(req[r].names_text) = << >>
              THEN Respond(r, Failure(400, "Please provide at least one name"))
                   /\ UNCHANGED << uploads, session_id, proper_names >>
              ELSE /\ proper_names' = [ proper_names EXCEPT
                                           ![r] = ProperNames(req[r].font, req[r].names_text) ]
                   /\ session_id' = [ session_id EXCEPT ![r] = r ]
                   /\ pc' = [ pc EXCEPT ![r] = "fontcheck" ]
                   /\ UNCHANGED << uploads, response >>
    /\ UNCHANGED << clock, fontfs, HARFBUZZ_AVAILABLE, req, template_path, index,
                    generated_files, sfs, has_combined_pdf, merge_calls, resolutions, last,
                    results_view, unit, layout >>

\* a font check that lets the batch go on without a Gujarati font
FontCheckPasses(ffs, font) == TRUE

\* lines 566-573: whether the batch may go on with this font
FontCheckOk(ffs, font) == font # "gujarati" \/ find_gujarati_font(ffs) # None

FontCheck(r) ==
    /\ pc[r] = "fontcheck"
    /\ resolutions' = [ resolutions EXCEPT
                          ![r].upfront = IF req[r].font = "gujarati" THEN @ + 1 ELSE @ ]
    /\ IF FontCheckOk(fontfs, req[r].font)
       THEN pc' = [ pc EXCEPT ![r] = "loop" ] /\ UNCHANGED response
       ELSE Respond(r, Failure(400, MsgFontNotFound))
    /\ UNCHANGED << clock, fontfs, HARFBUZZ_AVAILABLE, uploads, req, template_path, session_id,
                    proper_names, index, generated_files, sfs, has_combined_pdf, merge_calls,
                    last, results_view, unit, layout >>

\* a file written with the given state ("absent": nothing was written)
Written(dirfs, path, state, data) ==
    CASE state = "absent" -> dirfs
      [] state = "partial" -> Put(dirfs, path, Partial)
      [] OTHER -> Put(dirfs, path, Complete(data))

CopyOutcomes == { "ok", "raises_nofile", "raises_partial" }

\* a loop body that goes on to the next name when the copy of the JPEG fails
FileInfoStepSkipsFailedCopy(dirfs, name, png, jpg, generatePDF, cp, pd) ==
    LET jpg_copy == [ jpg EXCEPT !.dir = "jpg" ]
        copied == Written(dirfs, jpg_copy,
                          CASE cp = "ok" -> "complete"
                            [] cp = "raises_partial" -> "partial"
                            [] OTHER -> "absent",
                          IF Exists(dirfs, jpg) THEN dirfs[jpg].data ELSE << >>)
    IN [ raised |-> FALSE, dirfs |-> copied,
         file_info |-> IF cp = "ok" THEN << [ name |-> name, jpg |-> jpg_copy, pdf |-> << >> ] >>
                       ELSE << >> ]

\* a loop body in which a failed PDF conversion ends the batch like a failed copy
FileInfoStepPdfFatal(dirfs, name, png, jpg, generatePDF, cp, pd) ==
    LET jpg_copy == [ jpg EXCEPT !.dir = "jpg" ]
        pdf_path == [ png EXCEPT !.dir = "pdf", !.ext = "pdf" ]
        copied == Written(dirfs, jpg_copy,
                          CASE cp = "ok" -> "complete"
                            [] cp = "raises_partial" -> "partial"
                            [] OTHER -> "absent",
                          IF Exists(dirfs, jpg) THEN dirfs[jpg].data ELSE << >>)
        pdfres == IF generatePDF THEN generate_pdf(copied, png, pdf_path, pd)
                  ELSE [ ret |-> TRUE, dirfs |-> copied ]
    IN IF cp # "ok" \/ ~pdfres.ret
       THEN [ raised |-> TRUE, dirfs |-> IF cp = "ok" THEN pdfres.dirfs ELSE copied,
              file_info |-> << >> ]
       ELSE [ raised |-> FALSE, dirfs |-> pdfres.dirfs,
              file_info |-> << [ name |-> name, jpg |-> jpg_copy,
                                 pdf |-> IF generatePDF THEN << pdf_path >> ELSE << >> ] >> ]

\* lines 596-613 for one name: the JPEG is copied, the PDF is generated when
\* asked for, and the file_info is built; 'pdf' is << >> when the key is not set
FileInfoStep(dirfs, name, png, jpg, generatePDF, cp, pd) ==
    LET jpg_copy == [ jpg EXCEPT !.dir = "jpg" ]
        pdf_path == [ png EXCEPT !.dir = "pdf", !.ext = "pdf" ]
        copied == Written(dirfs, jpg_copy,
                          CASE cp = "ok" -> "complete"
                            [] cp = "raises_partial" -> "partial"
                            [] OTHER -> "absent",
                          IF Exists(dirfs, jpg) THEN dirfs[jpg].data ELSE << >>)
        pdfres == IF generatePDF THEN generate_pdf(copied, png, pdf_path, pd)
                  ELSE [ ret |-> FALSE, dirfs |-> copied ]
    IN IF cp # "ok"
       THEN [ raised |-> TRUE, dirfs |-> copied, file_info |-> << >> ]
       ELSE [ raised |-> FALSE, dirfs |-> pdfres.dirfs,
              file_info |-> << [ name |-> name, jpg |-> jpg_copy,
                                 pdf |-> IF pdfres.ret /\ Exists(pdfres.dirfs, pdf_path)
                                         THEN << pdf_path >> ELSE << >> ] >> ]

\* a handler that answers every rendering error with the font remediation message
RenderFailureAlwaysFont(font, raised) == Failure(500, MsgRenderError)

\* lines 583-594 and 653-654: the response to an exception of generate_certificate_image
RenderFailure(font, raised) ==
    IF font = "gujarati" /\ raised = "font" THEN Failure(500, MsgRenderError)
    ELSE Failure(500, "exception")

\* lines 577-613: one iteration of the loop over proper_names
ProcessName(r) ==
    /\ pc[r] = "loop"
    /\ index[r] < Len(proper_names[r])
    /\ LET name == proper_names[r][index[r] + 1]
           png == CertPath("", index[r] + 1, SafeName(name), "png")
           jpg == [ png EXCEPT !.ext = "jpg" ]
       IN \E out \in generate_certificate_image(TemplateAt(r), fontfs, HARFBUZZ_AVAILABLE,
                                                req[r].font) :
            LET drawn == [ name |-> name, template |-> uploads[template_path[r]] ]
                rendered == Written(Written(sfs[r], jpg, out.jpg, drawn), png, out.png, drawn)
            IN /\ last' = [ last EXCEPT ![r] = out ]
               /\ resolutions' = [ resolutions EXCEPT
                                     ![r].pername = IF out.resolved THEN @ + 1 ELSE @ ]
               /\ IF out.raised # None
                  THEN /\ sfs' = [ sfs EXCEPT ![r] = rendered ]
                       /\ Respond(r, RenderFailure(req[r].font, out.raised))
                       /\ UNCHANGED << index, generated_files >>
                  ELSE \E cp \in CopyOutcomes :
                       \E pd \in IF req[r].generatePDF /\ cp = "ok" THEN PdfOutcomes ELSE { "ok" } :
                         LET step == FileInfoStep(rendered, name, png, jpg,
                                                  req[r].generatePDF, cp, pd)
                         IN /\ sfs' = [ sfs EXCEPT ![r] = step.dirfs ]
                            /\ IF step.raised
                               THEN Respond(r, Failure(500, "exception"))
                                    /\ UNCHANGED << index, generated_files >>
                               ELSE /\ index' = [ index EXCEPT ![r] = @ + 1 ]
                                    /\ generated_files' =
                                         [ generated_files EXCEPT ![r] = @ \o step.file_info ]
                                    /\ UNCHANGED << pc, response >>
    /\ UNCHANGED << clock, fontfs, HARFBUZZ_AVAILABLE, uploads, req, template_path, session_id,
                    proper_names, has_combined_pdf, merge_calls, results_view, unit, layout >>

\* lines 619-625: the per-name PDFs that are handed to combine_pdfs
RECURSIVE PdfFilesOf(_, _)
PdfFilesOf(dirfs, files) ==
    IF files = << >> THEN << >>
    ELSE (IF Head(files).pdf # << >> /\ Exists(dirfs, Head(files).pdf[1])
          THEN Head(files).pdf ELSE << >>)
         \o PdfFilesOf(dirfs, Tail(files))

\* lines 615-629: after the loop, the combined PDF
CombineStep(r) ==
    /\ pc[r] = "loop"
    /\ index[r] = Len(proper_names[r])
    /\ LET pdf_files == PdfFilesOf(sfs[r], generated_files[r])
       IN IF req[r].generatePDF /\ pdf_files # << >>
          THEN \E mo \in MergeOutcomes :
                 LET res == combine_pdfs(sfs[r], pdf_files, CombinedPath, mo)
                 IN /\ sfs' = [ sfs EXCEPT ![r] = res.dirfs ]
                    /\ has_combined_pdf' = [ has_combined_pdf EXCEPT ![r] = res.ret ]
                    /\ merge_calls' = [ merge_calls EXCEPT ![r] = @ + 1 ]
          ELSE UNCHANGED << sfs, has_combined_pdf, merge_calls >>
    /\ pc' = [ pc EXCEPT ![r] = "manifest" ]
    /\ UNCHANGED << clock, fontfs, HARFBUZZ_AVAILABLE, uploads, req, template_path, session_id,
                    proper_names, index, generated_files, response, resolutions, last,
                    results_view, unit, layout >>

\* lines 632-639: the manifest
Info(r) ==
    [ session_id |-> session_id[r], names |-> proper_names[r], files |-> generated_files[r],
      has_pdf |-> req[r].generatePDF, has_combined_pdf |-> has_combined_pdf[r] ]

\* line 642: open(info_path, 'w') creates the empty file
OpenManifest(r) ==
    /\ pc[r] = "manifest"
    /\ sfs' = [ sfs EXCEPT ![r] = Put(@, InfoPath, Partial) ]
    /\ pc' = [ pc EXCEPT ![r] = "writing" ]
    /\ UNCHANGED << clock, fontfs, HARFBUZZ_AVAILABLE, uploads, req, template_path, session_id,
                    proper_names, index, generated_files, has_combined_pdf, merge_calls,
                    response, resolutions, last, results_view, unit, layout >>

\* lines 643-651: json.dump writes the manifest and the file is closed, or the
\* write raises and the handler answers 500
DumpManifest(r) ==
    /\ pc[r] = "writing"
    /\ \/ /\ sfs' = [ sfs EXCEPT ![r] = Put(@, InfoPath, Complete(Info(r))) ]
          /\ Respond(r, [ success |-> TRUE, code |-> 200,
                          message |-> "Certificates generated successfully!" ])
       \/ /\ Respond(r, Failure(500, "exception"))
          /\ UNCHANGED sfs
    /\ UNCHANGED << clock, fontfs, HARFBUZZ_AVAILABLE, uploads, req, template_path, session_id,
                    proper_names, index, generated_files, has_combined_pdf, merge_calls,
                    resolutions, last, results_view, unit, layout >>

\* the server process dies while the handler runs
Crash(r) ==
    /\ pc[r] \in Running
    /\ pc' = [ pc EXCEPT ![r] = "crashed" ]
    /\ UNCHANGED << clock, fontfs, HARFBUZZ_AVAILABLE, uploads, req, template_path, session_id,
                    proper_names, index, generated_files, sfs, has_combined_pdf, merge_calls,
                    response, resolutions, last, results_view, unit, layout >>

\* results(): a later request for the run's session
ResultsOf(sid, dirfs) ==
    IF sid = 0 THEN "session_not_found"
    ELSE IF ~Exists(dirfs, InfoPath) THEN "info_not_found"
    ELSE IF dirfs[InfoPath].state # "complete" THEN "json_error"
    ELSE "ok"

Results(r) ==
    /\ pc[r] \in { "done", "crashed" }
    /\ results_view[r] = "none"
    /\ results_view' = [ results_view EXCEPT ![r] = ResultsOf(session_id[r], sfs[r]) ]
    /\ UNCHANGED << clock, fontfs, HARFBUZZ_AVAILABLE, uploads, pc, req, template_path,
                    session_id, proper_names, index, generated_files, sfs, has_combined_pdf,
                    merge_calls, response, resolutions, last, unit, layout >>

\* a second passes
Tick ==
    /\ clock < MaxClock
    /\ clock' = clock + 1
    /\ UNCHANGED << fontfs, HARFBUZZ_AVAILABLE, uploads, pc, req, template_path, session_id,
                    proper_names, index, generated_files, sfs, has_combined_pdf, merge_calls,
                    response, resolutions, last, results_view, unit, layout >>

(***************************************************************************)
(* combine_pdfs called on its own: on a pdf folder in which each of up to  *)
(* MaxLines one-page PDFs is absent, unreadable or complete, with any list *)
(* of these paths as pdf_files.                                            *)
(***************************************************************************)
\* "A", "B", "C", ...
UnitName(i) == << 64 + i >>
UnitPdf(i) == CertPath("pdf", i, UnitName(i), "pdf")
UnitPage(i) == [ name |-> UnitName(i), template |-> 1 ]

UnitDir(k, states) ==
    LET present == { i \in 1..k : states[i] # "absent" }
    IN [ q \in { UnitPdf(i) : i \in present } |->
           LET i == CHOOSE j \in present : UnitPdf(j) = q
           IN IF states[i] = "complete" THEN Complete(<< UnitPage(i) >>) ELSE Partial ]

UnitCalls ==
    UNION { { [ pdf_files |-> [ j \in 1..n |-> UnitPdf(order[j]) ],
                before |-> UnitDir(k, states), dirfs |-> UnitDir(k, states),
                called |-> FALSE, outcome |-> "ok", ret |-> FALSE ] :
              states \in [ 1..k -> { "absent", "partial", "complete" } ],
              order \in { o \in [ 1..n -> 1..k ] :
                           \A a, b \in 1..n : a # b => o[a] # o[b] } } :
            k \in 1..MaxLines, n \in 0..MaxLines }

CallCombinePdfs ==
    /\ ~unit.called
    /\ unit.before # EmptyDir \/ unit.pdf_files # << >>
    /\ \E mo \in MergeOutcomes :
         LET res == combine_pdfs(unit.before, unit.pdf_files, CombinedPath, mo)
         IN unit' = [ unit EXCEPT !.dirfs = res.dirfs, !.called = TRUE,
                                  !.outcome = mo, !.ret = res.ret ]
    /\ UNCHANGED << clock, fontfs, HARFBUZZ_AVAILABLE, uploads, pc, req, template_path,
                    session_id, proper_names, index, generated_files, sfs, has_combined_pdf,
                    merge_calls, response, resolutions, last, results_view, layout >>

\* no batch run, one direct call
InitUnit ==
    /\ InitRuns({ [ r \in Runs |-> NoRequest ] })
    /\ pc = [ r \in Runs |-> "off" ]
    /\ fontfs = LatinOnly
    /\ HARFBUZZ_AVAILABLE = TRUE
    /\ unit \in UnitCalls
    /\ layout = NoLayout

(***************************************************************************)
(* The layout of one name on its own: for a font, a name of up to MaxChars *)
(* characters, a font size, a template width, and what the libraries       *)
(* report for the name.                                                    *)
(***************************************************************************)
FontSizes == { 10, 48 }
TemplateWidths == { 200, 201 }

\* boxes << left, right >> of a drawn text relative to its origin: flush, with a
\* left bearing of one pixel, with a left bearing of four pixels
InkBoxes == { << 0, 90 >>, << 1, 91 >>, << 4, 96 >> }

Glyph(adv, off, bl, bw) ==
    [ x_advance |-> adv, x_offset |-> off, bitmap_left |-> bl, bitmap_width |-> bw ]

\* glyphs in 26.6 units (advance, offset) and pixels (bitmap): a base letter with
\* even bearings, a base letter with a wide left bearing, a mark without advance
\* placed over the letter before it
Glyphs == { Glyph(672, 0, 1, 8), Glyph(1280, 0, 6, 14), Glyph(0, -64, -4, 3) }

GlyphRuns == UNION { [ 1..k -> Glyphs ] : k \in 1..MaxChars }

LayoutCalls ==
    { [ font_name |-> f, shaped |-> sh, run |-> run, ink |-> ink, bbox_raises |-> br,
        chars |-> n, font_size |-> fs, width |-> w, called |-> FALSE,
        result |-> NoLayout.result ] :
        f \in { "arial", "gujarati" }, sh \in { FALSE }, run \in { << >> },
        ink \in InkBoxes, br \in BOOLEAN, n \in 1..MaxChars, fs \in FontSizes,
        w \in TemplateWidths }
    \cup
    { [ font_name |-> "gujarati", shaped |-> TRUE, run |-> run, ink |-> << 0, 90 >>,
        bbox_raises |-> FALSE, chars |-> Len(run), font_size |-> 48, width |-> w,
        called |-> FALSE, result |-> NoLayout.result ] :
        run \in GlyphRuns, w \in TemplateWidths }

\* generate_certificate_image lays the name out
LayOut ==
    /\ layout.chars > 0 /\ ~layout.called
    /\ layout' = [ layout EXCEPT
                     !.called = TRUE,
                     !.result = Layout(layout.font_name, layout.shaped, layout.run, layout.ink,
                                       layout.bbox_raises, layout.chars, layout.font_size,
                                       layout.width) ]
    /\ UNCHANGED << clock, fontfs, HARFBUZZ_AVAILABLE, uploads, pc, req, template_path,
                    session_id, proper_names, index, generated_files, sfs, has_combined_pdf,
                    merge_calls, response, resolutions, last, results_view, unit >>

InitLayout ==
    /\ InitRuns({ [ r \in Runs |-> NoRequest ] })
    /\ pc = [ r \in Runs |-> "off" ]
    /\ fontfs = LatinOnly
    /\ HARFBUZZ_AVAILABLE = TRUE
    /\ unit = NoUnit
    /\ layout \in LayoutCalls

\* one name is laid out
SpecLayout == InitLayout /\ [][LayOut]_vars

(***************************************************************************)
(* The specifications.                                                     *)
(***************************************************************************)
RunStep(r) ==
    \/ Receive(r)
    \/ VerifyAndPrepare(r)
    \/ FontCheck(r)
    \/ ProcessName(r)
    \/ CombineStep(r)
    \/ OpenManifest(r)
    \/ DumpManifest(r)

Next ==
    \/ \E r \in Runs : RunStep(r)
    \/ CallCombinePdfs

\* one batch run handled alone, or one direct call of combine_pdfs
Spec == (Init \/ InitUnit) /\ [][Next]_vars

NextCrash ==
    \/ \E r \in Runs : RunStep(r)
    \/ \E r \in Runs : Crash(r)
    \/ \E r \in Runs : Results(r)

\* one batch run during which the server may die, and the later /results requests
SpecCrash == Init /\ [][NextCrash]_vars

\* the requests of the two concurrent runs
ConcRequests == {
    [ upload |-> "png", font |-> "arial", names_text |-> << 98, 111 >>, generatePDF |-> TRUE ],
    [ upload |-> "badimage", font |-> "arial", names_text |-> << 98, 111 >>,
      generatePDF |-> FALSE ] }

InitConc ==
    /\ InitRuns([ Runs -> ConcRequests ])
    /\ pc = [ r \in Runs |-> "start" ]
    /\ fontfs = LatinOnly
    /\ HARFBUZZ_AVAILABLE = TRUE
    /\ unit = NoUnit
    /\ layout = NoLayout

NextConc ==
    \/ Tick
    \/ \E r \in Runs : RunStep(r)

\* two batch runs handled at the same time
SpecConc == InitConc /\ [][NextConc]_vars


(***************************************************************************)
(* Properties.                                                             *)
(***************************************************************************)
\* a line that holds something other than white space
HasText(line) == \E j \in 1..Len(line) : ~IsSpace(line[j])

\* the non-blank lines of a names text, in the order they were submitted
NonBlankLines(text) == SelectSeq(SplitOn(text, NL, << >>), HasText)

\* the manifest a run left in its session directory
Manifest(r) == sfs[r][InfoPath].data

\* t is line without the white space around it
IsTrimmed(t, line) ==
    /\ t # << >> /\ ~IsSpace(t[1]) /\ ~IsSpace(t[Len(t)])
    /\ \E a \in 0..(Len(line) - Len(t)) :
          /\ t = SubSeq(line, a + 1, a + Len(t))
          /\ \A j \in 1..Len(line) : (j <= a \/ j > a + Len(t)) => IsSpace(line[j])

\* t is the title-cased form of line: the same words, one space between them, each
\* with its first letter capitalized and the rest lower-cased
IsTitleCaseOf(t, line) ==
    LET tw == SplitWords(t, << >>)
        lw == SplitWords(line, << >>)
    IN /\ t = JoinWith(tw, SP)
       /\ Len(tw) = Len(lw)
       /\ \A k \in 1..Len(tw) :
             /\ Len(tw[k]) = Len(lw[k])
             /\ \A j \in 1..Len(tw[k]) :
                   tw[k][j] = IF j = 1 THEN UpperChar(lw[k][j]) ELSE LowerChar(lw[k][j])

\* the artifacts of a run so far are those of the first names, in the order of the names
ArtifactsFollow(r) ==
    /\ index[r] = Len(generated_files[r])
    /\ Len(generated_files[r]) <= Len(proper_names[r])
    /\ \A i \in 1..Len(generated_files[r]) :
          /\ generated_files[r][i].name = proper_names[r][i]
          /\ generated_files[r][i].jpg.index = i

\* C1: a batch run that succeeds leaves a manifest whose 'files' list has exactly one
\* artifact per non-blank input line, duplicate names included, and whose i-th
\* artifact carries the i-th entry of the manifest's 'names' list, for any font.
C1_OneArtifactPerLine ==
    \A r \in Runs : response[r].success =>
        /\ IsComplete(sfs[r], InfoPath)
        /\ Len(Manifest(r).files) = Len(NonBlankLines(req[r].names_text))
        /\ Len(Manifest(r).names) = Len(Manifest(r).files)
        /\ \A i \in 1..Len(Manifest(r).files) :
              Manifest(r).files[i].name = Manifest(r).names[i]

\* a successful run on a text with blank lines and a name submitted twice
C1_Witness ==
    \E r \in Runs :
        /\ response[r].success
        /\ Len(SplitOn(req[r].names_text, NL, << >>)) = 3
        /\ Len(Manifest(r).files) = 2
        /\ Manifest(r).files[1].name = Manifest(r).files[2].name

\* "Anju Shah", "Govind Patel"
ScenarioNames ==
    << << 65, 110, 106, 117, 32, 83, 104, 97, 104 >>,
       << 71, 111, 118, 105, 110, 100, 32, 80, 97, 116, 101, 108 >> >>

\* C2: for a Latin font the names of the batch are the title-cased non-blank input
\* lines in ascending order, the artifacts are produced in that order, and
\* "govind patel", "ANJU SHAH" gives "Anju Shah", "Govind Patel".
C2_LatinTitleCasedSorted ==
    \A r \in Runs : (req[r].font # "gujarati" /\ session_id[r] # 0) =>
        LET nb == NonBlankLines(req[r].names_text)
            n == Len(nb)
        IN /\ Len(proper_names[r]) = n
           /\ \A i \in 1..(n - 1) : ~StrLess(proper_names[r][i + 1], proper_names[r][i])
           /\ \E perm \in [ 1..n -> 1..n ] :
                 /\ \A a, b \in 1..n : a # b => perm[a] # perm[b]
                 /\ \A a \in 1..n : IsTitleCaseOf(proper_names[r][perm[a]], nb[a])
           /\ ArtifactsFollow(r)
           /\ req[r].names_text = ScenarioText => proper_names[r] = ScenarioNames
           /\ response[r].success => Manifest(r).names = proper_names[r]

\* the scenario's run has succeeded with its two artifacts
C2_Witness ==
    \E r \in Runs :
        /\ req[r].font = "arial" /\ req[r].names_text = ScenarioText
        /\ response[r].success
        /\ Len(generated_files[r]) = 2
        /\ generated_files[r][1].name = ScenarioNames[1]

\* C3: for the gujarati font the names of the batch are the non-blank input lines in
\* the submitted order, each with its submitted characters (only the white space
\* around a line is dropped): nothing is sorted and no letter changes case, and the
\* manifest's names and the artifacts follow that order.
C3_GujaratiOrderKept ==
    \A r \in Runs : (req[r].font = "gujarati" /\ session_id[r] # 0) =>
        LET nb == NonBlankLines(req[r].names_text)
        IN /\ Len(proper_names[r]) = Len(nb)
           /\ \A i \in 1..Len(nb) : IsTrimmed(proper_names[r][i], nb[i])
           /\ ArtifactsFollow(r)
           /\ response[r].success => Manifest(r).names = proper_names[r]

\* a successful gujarati run whose names are not in ascending order and hold
\* letters of both cases
C3_Witness ==
    \E r \in Runs :
        /\ req[r].font = "gujarati"
        /\ response[r].success
        /\ Len(proper_names[r]) = 2
        /\ StrLess(proper_names[r][2], proper_names[r][1])
        /\ \E j \in 1..Len(proper_names[r][2]) : IsUpper(proper_names[r][2][j])
        /\ \E j \in 1..Len(proper_names[r][2]) : IsLower(proper_names[r][2][j])
        /\ Len(Manifest(r).files) = 2

\* no font file of the machine passes the Gujarati check
NoVerifiedFont == \A p \in DOMAIN fontfs : ~check_font_supports_gujarati(fontfs, p)

\* C4: a gujarati batch on a machine where no font passes the Gujarati check never
\* runs a per-name step and writes no file, and once its names are read it ends
\* with the 400 response that carries the font installation message.
C4_NoFontAbortsBeforeRendering ==
    \A r \in Runs : (req[r].font = "gujarati" /\ NoVerifiedFont) =>
        /\ pc[r] \notin { "loop", "manifest", "writing" }
        /\ index[r] = 0 /\ generated_files[r] = << >>
        /\ resolutions[r].pername = 0 /\ last[r] = NoOutcome
        /\ sfs[r] = EmptyDir
        /\ ~response[r].success
        /\ (pc[r] = "done" /\ proper_names[r] # << >>) =>
              response[r] = Failure(400, MsgFontNotFound)

\* a gujarati batch with a name was refused on a machine that has a Gujarati-named
\* font file without Gujarati glyphs
C4_Witness ==
    \E r \in Runs :
        /\ req[r].font = "gujarati" /\ NoVerifiedFont
        /\ path_exists(fontfs, UserNotoRegular)
        /\ proper_names[r] # << >>
        /\ response[r] = Failure(400, MsgFontNotFound)

\* the pages of the inputs that exist and can be read, in the order of the list
PagesInOrder(dirfs, pdf_files) ==
    LET readable == SelectSeq(pdf_files, LAMBDA q : IsComplete(dirfs, q))
    IN [ i \in 1..Len(readable) |-> dirfs[readable[i]].data[1] ]

\* C5: a combine_pdfs that returns True has written the pages of its inputs in the
\* order of the input list, skipping the inputs that do not exist (or cannot be
\* read) and keeping the order of the others; it fails only when no input exists
\* or the save raises; in a batch the combined pages follow the order of the names
\* whose PDF exists.
C5_MergeKeepsInputOrder ==
    /\ unit.called =>
          /\ unit.ret =>
                /\ IsComplete(unit.dirfs, CombinedPath)
                /\ unit.dirfs[CombinedPath].data = PagesInOrder(unit.before, unit.pdf_files)
          /\ unit.ret <=> /\ unit.outcome = "ok"
                          /\ \E i \in 1..Len(unit.pdf_files) :
                                Exists(unit.before, unit.pdf_files[i])
          /\ \A q \in DOMAIN unit.before : unit.dirfs[q] = unit.before[q]
    /\ \A r \in Runs : has_combined_pdf[r] =>
          LET with_pdf == SelectSeq(generated_files[r], LAMBDA f : f.pdf # << >>)
          IN /\ IsComplete(sfs[r], CombinedPath)
             /\ sfs[r][CombinedPath].data =
                   [ i \in 1..Len(with_pdf) |-> sfs[r][with_pdf[i].pdf[1]].data[1] ]
             /\ \A i \in 1..Len(with_pdf) :
                   sfs[r][CombinedPath].data[i].name = with_pdf[i].name

\* A, B, C are merged in an order other than that of the directory, B does not
\* exist, and the combined document holds the pages of C and A
C5_Witness ==
    /\ unit.called /\ unit.ret
    /\ unit.pdf_files = << UnitPdf(3), UnitPdf(2), UnitPdf(1) >>
    /\ ~Exists(unit.before, UnitPdf(2))
    /\ unit.dirfs[CombinedPath].data = << UnitPage(3), UnitPage(1) >>


\* C6: within a batch run the font is resolved exactly once, before the loop over
\* the names, and never again for a name.
C6_FontResolvedOnceUpFront ==
    \A r \in Runs :
        /\ resolutions[r].pername = 0
        /\ pc[r] = "loop" => resolutions[r].upfront = 1

\* C7: a /results request for a session, at any point of the batch run and after a
\* crash of the server, finds no manifest or reads a complete one, never a
\* partially written one.
C7_ManifestNeverPartial ==
    \A r \in Runs :
        results_view[r] \in { "none", "session_not_found", "info_not_found", "ok" }

\* C8: while a run still uses its saved template, the file at the run's template
\* path is the run's own upload: no other run has overwritten or removed it.
C8_TemplateIsOwn ==
    \A r \in Runs :
        pc[r] \in { "saved", "fontcheck", "loop" } => uploads[template_path[r]] = r

ShapingFailures == { "shape_raises", "draw_raises", "no_path" }

Rendered(o) == o.text_draws = 1 /\ o.jpg = "complete" /\ o.png = "complete"

\* C9 as the specification states it: when the shaping of a gujarati name fails the
\* batch ends with the remediation message and no image of that name is written.
C9_ShapingFailureAbortsBatch ==
    \A r \in Runs : (req[r].font = "gujarati" /\ last[r].shaping \in ShapingFailures) =>
        /\ response[r] = Failure(500, MsgRenderError)
        /\ last[r].jpg = "absent" /\ last[r].png = "absent"

\* C9, amended: when the shaping of a gujarati name fails the name is drawn with the
\* plain text call instead, and unless that call or a save raises both images of
\* the name are written and the batch goes on; a gujarati batch ends with the
\* remediation message exactly when rendering a name raised an error that mentions
\* the font.  For another font a failed measurement falls back to the estimated
\* width, the name is drawn, and the remediation message is never sent.
C9_ShapingFailureFallsBack ==
    \A r \in Runs :
        /\ (req[r].font = "gujarati" /\ last[r].shaping \in ShapingFailures) =>
              /\ last[r].branch = "fallback"
              /\ last[r].measure \in { "bbox", "estimate" }
              /\ last[r].raised = None => Rendered(last[r])
        /\ req[r].font = "gujarati" =>
              (response[r] = Failure(500, MsgRenderError) <=> last[r].raised = "font")
        /\ req[r].font # "gujarati" =>
              /\ response[r].message # MsgRenderError
              /\ (last[r].measure = "estimate" /\ last[r].raised = None) =>
                    last[r].branch = "regular" /\ Rendered(last[r])

\* a gujarati batch succeeded although the shaping of its last name raised
C9_Witness ==
    \E r \in Runs :
        /\ req[r].font = "gujarati"
        /\ last[r].shaping = "shape_raises"
        /\ Rendered(last[r])
        /\ response[r].success
        /\ Len(Manifest(r).files) = Len(proper_names[r])

\* C10: a _font_path on the font get_font_path returned names the file the font was
\* loaded from, that file passed check_font_supports_gujarati, and the shaped path
\* loads no file that did not pass it.
C10_FontPathIsVerifiedFile ==
    \A r \in Runs :
        /\ last[r].font._font_path # None =>
              /\ last[r].font._font_path = last[r].font.source
              /\ check_font_supports_gujarati(fontfs, last[r].font._font_path)
        /\ last[r].shaped_path # None =>
              check_font_supports_gujarati(fontfs, last[r].shaped_path)


\* the path of the PDF that belongs to a file_info
PdfPathOf(f) == [ f.jpg EXCEPT !.dir = "pdf", !.ext = "pdf" ]

\* C11: a PDF conversion that fails for a name does not end the batch: the name's
\* artifact is recorded with its image reference and without a 'pdf' field, an
\* entry has a 'pdf' field exactly when PDFs were asked for and its PDF was
\* written, and the loop goes on to the next name.
C11_PdfFailureIsNotFatal ==
    \A r \in Runs :
        /\ \A i \in 1..Len(generated_files[r]) :
              LET f == generated_files[r][i]
              IN /\ f.name = proper_names[r][i]
                 /\ IsComplete(sfs[r], f.jpg)
                 /\ f.pdf # << >> <=>
                       (req[r].generatePDF /\ IsComplete(sfs[r], PdfPathOf(f)))
                 /\ f.pdf # << >> => f.pdf = << PdfPathOf(f) >>
        \* a conversion that left an empty file behind: its name was recorded
        /\ \A q \in DOMAIN sfs[r] :
              (q.dir = "pdf" /\ ~IsComplete(sfs[r], q)) =>
                  /\ q.index <= index[r]
                  /\ generated_files[r][q.index].pdf = << >>
                  /\ PdfPathOf(generated_files[r][q.index]) = q

\* the conversion of the first name failed, the second name got its PDF, and the
\* batch succeeded with both artifacts in the manifest
C11_Witness ==
    \E r \in Runs :
        /\ response[r].success /\ req[r].generatePDF
        /\ Len(Manifest(r).files) = 2
        /\ Manifest(r).files[1].pdf = << >>
        /\ Exists(sfs[r], PdfPathOf(Manifest(r).files[1]))
        /\ IsComplete(sfs[r], Manifest(r).files[1].jpg)
        /\ Manifest(r).files[2].pdf # << >>


\* some name of the run has a 'pdf' field
SomePdf(r) == \E i \in 1..Len(generated_files[r]) : generated_files[r][i].pdf # << >>

\* the run is past the point where the merge is decided
AfterMerge(r) == pc[r] \in { "manifest", "writing" } \/ Exists(sfs[r], InfoPath)

\* the merge is called at most once, only after the last name, and exactly when PDFs
\* were asked for and some name got one; the manifest records the two flags
MergeInvocation(r) ==
    /\ merge_calls[r] <= 1
    /\ merge_calls[r] = 1 =>
          /\ index[r] = Len(proper_names[r]) /\ pc[r] # "loop"
          /\ Len(generated_files[r]) = Len(proper_names[r])
    /\ AfterMerge(r) => (merge_calls[r] = 1 <=> (req[r].generatePDF /\ SomePdf(r)))
    /\ has_combined_pdf[r] => merge_calls[r] = 1
    /\ response[r].success =>
          /\ Manifest(r).has_pdf = req[r].generatePDF
          /\ Manifest(r).has_combined_pdf = has_combined_pdf[r]

\* C12: the merge is invoked exactly when PDFs were
\* asked for and one succeeded, after every name, and has_combined_pdf is true
\* exactly when the combined PDF file exists.
C12_FlagIffCombinedFileExists ==
    \A r \in Runs :
        /\ MergeInvocation(r)
        /\ has_combined_pdf[r] <=> Exists(sfs[r], CombinedPath)

\* what the code does guarantee about the flag: has_combined_pdf is true exactly
\* when combine_pdfs returned True, and then the complete combined PDF exists; when
\* it is false the combined path is absent or holds the truncated file of a save
\* that failed.
FlagIffMergeSucceeded ==
    \A r \in Runs :
        /\ MergeInvocation(r)
        /\ has_combined_pdf[r] <=> IsComplete(sfs[r], CombinedPath)
        /\ (Exists(sfs[r], CombinedPath) /\ ~has_combined_pdf[r]) =>
              /\ merge_calls[r] = 1
              /\ sfs[r][CombinedPath] = Partial

\* a run with PDFs whose merge failed in the save is recorded as has_pdf = true,
\* has_combined_pdf = false, and the truncated combined file is on disk
C12_Witness ==
    \E r \in Runs :
        /\ response[r].success
        /\ merge_calls[r] = 1
        /\ Manifest(r).has_pdf /\ ~Manifest(r).has_combined_pdf
        /\ Exists(sfs[r], CombinedPath)


\* C13: combine_pdfs returns False only when its list is empty, none of its inputs
\* exists, or the save of the combined document fails; in every other case it
\* returns True and the combined file exists, completely written.
C13_MergeFailsOnlyWithoutInputsOrOnWrite ==
    /\ unit.called =>
          LET none_exists == \A i \in 1..Len(unit.pdf_files) :
                                 ~Exists(unit.before, unit.pdf_files[i])
          IN /\ ~unit.ret <=> (none_exists \/ unit.outcome # "ok")
             /\ unit.ret => IsComplete(unit.dirfs, CombinedPath)
             /\ none_exists => unit.dirfs = unit.before
    /\ \A r \in Runs : merge_calls[r] = 1 =>
          /\ SomePdf(r)
          /\ has_combined_pdf[r] => IsComplete(sfs[r], CombinedPath)

\* a merge succeeded although one input was missing and another could not be read
C13_Witness ==
    /\ unit.called /\ unit.ret
    /\ Len(unit.pdf_files) = 3
    /\ \E i \in 1..3 : ~Exists(unit.before, unit.pdf_files[i])
    /\ \E i \in 1..3 : /\ Exists(unit.before, unit.pdf_files[i])
                       /\ ~IsComplete(unit.before, unit.pdf_files[i])
    /\ Len(unit.dirfs[CombinedPath].data) = 1


\* the batch of run r ended inside the loop: a failure response, the remaining names
\* unprocessed, no merge, no combined PDF and no manifest
BatchFailedInLoop(r) ==
    /\ pc[r] = "done" /\ ~response[r].success /\ response[r].code = 500
    /\ index[r] < Len(proper_names[r])
    /\ Len(generated_files[r]) = index[r]
    /\ merge_calls[r] = 0 /\ ~has_combined_pdf[r]
    /\ ~Exists(sfs[r], CombinedPath)
    /\ ~Exists(sfs[r], InfoPath)

\* the images of a name were written and their copy into jpg/ was not: the copy raised
CopyFailed(r) ==
    \E q \in DOMAIN sfs[r] :
        /\ q.dir = "" /\ q.ext = "png" /\ IsComplete(sfs[r], q)
        /\ ~IsComplete(sfs[r], [ q EXCEPT !.dir = "jpg", !.ext = "jpg" ])

\* C14: when rendering a name or copying its image raises, the whole batch fails: the
\* response is a failure, no later name is processed, no merge is attempted and no
\* manifest is written; a manifest exists only for a batch whose names were all
\* processed.
C14_NameFailureFailsBatch ==
    \A r \in Runs :
        /\ last[r].raised # None => BatchFailedInLoop(r)
        /\ CopyFailed(r) => BatchFailedInLoop(r)
        /\ Exists(sfs[r], InfoPath) =>
              /\ index[r] = Len(proper_names[r])
              /\ Len(generated_files[r]) = Len(proper_names[r])
        /\ IsComplete(sfs[r], InfoPath) =>
              Len(Manifest(r).files) = Len(Manifest(r).names)

\* the copy of the second name's JPEG raised after the first name was processed
C14_Witness ==
    \E r \in Runs :
        /\ CopyFailed(r) /\ last[r].raised = None
        /\ index[r] = 1 /\ Len(proper_names[r]) = 3
        /\ BatchFailedInLoop(r)


\* C15: after a batch run, failed or not, every output path of the session (the
\* per-name JPEG, PNG and PDF, the combined PDF, the manifest) holds a completely
\* written file or does not exist.
C15_FilesCompleteOrAbsent ==
    \A r \in Runs : pc[r] = "done" =>
        \A q \in DOMAIN sfs[r] : sfs[r][q].state = "complete"

\* a batch succeeded and left the empty PDF of a failed conversion in pdf/
C15_Witness ==
    \E r \in Runs :
        /\ pc[r] = "done" /\ response[r].success
        /\ \E q \in DOMAIN sfs[r] : q.dir = "pdf" /\ sfs[r][q] = Partial


\* the font file of the given kind loads
Loads(kind) == kind \notin { "absent", "unloadable" }

\* some probe glyph of a font of the given kind has a box that is wider than zero
SomeProbeHasWidth(kind) ==
    \E i \in 1..Len(test_chars) :
        /\ ProbeBBox(kind, i) # "raise"
        /\ ProbeBBox(kind, i)[3] > ProbeBBox(kind, i)[1]

\* C16: check_font_supports_gujarati accepts a font file exactly when the font loads
\* and some probe glyph has a box wider than zero; a font that loads and gives a
\* zero-width box or an error for every probe, and a file that does not load, are
\* rejected; the font find_gujarati_font returns is never one of a rejected file.
C16_CheckRejectsFontsWithoutGlyphs ==
    /\ \A p \in DOMAIN fontfs :
          /\ check_font_supports_gujarati(fontfs, p) <=>
                (Loads(fontfs[p]) /\ SomeProbeHasWidth(fontfs[p]))
          /\ fontfs[p] \in { "tofu", "broken", "unloadable" } =>
                ~check_font_supports_gujarati(fontfs, p)
          /\ fontfs[p] \in { "late", "good" } => check_font_supports_gujarati(fontfs, p)
    /\ LET found == find_gujarati_font(fontfs)
       IN found # None => (found \in DOMAIN fontfs /\ fontfs[found] \in { "late", "good" })
    /\ \A r \in Runs : (req[r].font = "gujarati" /\ last[r].resolved) =>
          /\ last[r].font.source \in DOMAIN fontfs
          /\ fontfs[last[r].font.source] \in { "late", "good" }

\* a name was rendered with the font of a later candidate, found after the first
\* candidate, which loads and has only zero-width probe boxes, was rejected
C16_Witness ==
    \E r \in Runs :
        /\ req[r].font = "gujarati" /\ last[r].resolved
        /\ KindAt(fontfs, UserNotoRegular) = "tofu"
        /\ last[r].font.source # UserNotoRegular
        /\ fontfs[last[r].font.source] = "late"


\* C20: generate_certificate_image draws the name onto the template buffer exactly
\* once: the plain text draw is never applied on top of glyphs the shaped draw has
\* already drawn, so no saved image holds the name twice.
C20_NameDrawnOnce ==
    \A r \in Runs :
        /\ last[r].glyph_draws + last[r].text_draws <= 1
        /\ (last[r].jpg # "absent" \/ last[r].png # "absent") =>
              last[r].glyph_draws + last[r].text_draws = 1

\* the shaped draw raised after it drew glyphs, the plain text draw was applied to
\* the same buffer, both images were saved, and the batch succeeded
C20_Witness ==
    \E r \in Runs :
        /\ last[r].shaping = "draw_raises"
        /\ last[r].glyph_draws = 1 /\ last[r].text_draws = 1
        /\ last[r].jpg = "complete" /\ last[r].png = "complete"
        /\ response[r].success


\* the PNG and JPEG that generate_certificate_image wrote for a file_info
PngPathOf(f) == [ f.jpg EXCEPT !.dir = "", !.ext = "png" ]
JpgPathOf(f) == [ f.jpg EXCEPT !.dir = "" ]

\* C19: within a batch the PNG, JPEG and PDF paths of different list positions are
\* different, also when two names are equal or have the same safe file name, and
\* the files of an earlier name are still those of that name after later names
\* were processed.
C19_PathsDistinctPerPosition ==
    \A r \in Runs :
        /\ \A i \in 1..Len(generated_files[r]) : \A j \in 1..(i - 1) :
              LET f == generated_files[r][i]
                  g == generated_files[r][j]
              IN /\ f.jpg # g.jpg /\ FileName(f.jpg) # FileName(g.jpg)
                 /\ FileName(PngPathOf(f)) # FileName(PngPathOf(g))
                 /\ FileName(PdfPathOf(f)) # FileName(PdfPathOf(g))
        /\ \A i \in 1..Len(generated_files[r]) :
              LET f == generated_files[r][i]
              IN /\ f.jpg.index = i
                 /\ \A q \in { f.jpg, JpgPathOf(f), PngPathOf(f) } :
                       /\ IsComplete(sfs[r], q)
                       /\ sfs[r][q].data.name = f.name
                 /\ f.pdf # << >> => sfs[r][f.pdf[1]].data = << sfs[r][PngPathOf(f)].data >>

\* two different names with one safe file name were both processed
C19_Witness ==
    \E r \in Runs :
        /\ Len(generated_files[r]) = 2
        /\ generated_files[r][1].name # generated_files[r][2].name
        /\ generated_files[r][1].jpg.safe = generated_files[r][2].jpg.safe
        /\ response[r].success


\* C17: when the box measurement fails the width is taken as characterCount *
\* fontSize * widthFactor, and for the same character count and font size the
\* estimate of the gujarati style is wider than the estimate of a Latin style.
C17_GujaratiEstimateIsWider ==
    (layout.called /\ layout.result.measure = "estimate") =>
        /\ layout.result.text_width =
              layout.chars * layout.font_size * WidthFactor(layout.font_name)
        /\ layout.font_name = "gujarati" =>
              layout.result.text_width
                  > EstimatedWidth(layout.chars, layout.font_size, "arial")

\* the width of a gujarati name was estimated
C17_Witness ==
    /\ layout.called /\ layout.result.measure = "estimate"
    /\ layout.font_name = "gujarati" /\ layout.chars = 2 /\ layout.font_size = 48
    /\ layout.result.text_width = 48 * Scale

Abs(a) == IF a < 0 THEN -a ELSE a

\* C18: for a name drawn with a measured width (the sum of the glyph advances on the
\* shaped path, the width of the box on the plain path) the draw origin is
\* imageWidth/2 - textWidth/2 and the midpoint between the left and the right edge
\* of the drawn text is within one pixel of imageWidth/2.
C18_TextIsCentred ==
    (layout.called /\ layout.result.drawn
        /\ layout.result.measure \in { "harfbuzz", "bbox" }) =>
        /\ 2 * layout.result.x_position = layout.width * Scale - layout.result.text_width
        /\ Abs(layout.result.left + layout.result.right - layout.width * Scale)
              <= 2 * Scale

\* a plain draw whose box starts four pixels right of the origin, four pixels off
\* centre
C18_Witness ==
    /\ layout.called /\ layout.result.measure = "bbox"
    /\ layout.ink = << 4, 96 >>
    /\ layout.result.left + layout.result.right - layout.width * Scale = 8 * Scale

=============================================================================
